---- MODULE Spec2Model ----
(***************************************************************************)
(* backblaze_b2_delete_all_old_versions.py: list every version stored in a *)
(* B2 bucket, keep the newest version of each file, delete (or, in dry-run *)
(* mode, report) the others.                                               *)
(*                                                                         *)
(* The bucket is the external store.  One run of the script is a walk of   *)
(* pc from "start" to "exited"; Restart launches the script again on the   *)
(* bucket the previous run left behind.                                    *)
(***************************************************************************)
EXTENDS Integers, Sequences, FiniteSets, TLC

\* ---------------------------------------------------------------- bounds
MaxVersions == 3
MaxTimestamp == 3

Names == {"a", "b"}

\* ------------------------------------------------------- version records
NoRec == [fileName |-> "", uploadTimestamp |-> 0, fileId |-> 0]

\* Every bucket content of at most MaxVersions versions, in any listing
\* order; the fileId of a version is unique in the bucket.
Buckets ==
  UNION { { [i \in 1..n |-> [fileName |-> f[i][1],
                             uploadTimestamp |-> f[i][2],
                             fileId |-> i]]
            : f \in [1..n -> Names \X (1..MaxTimestamp)] }
          : n \in 0..MaxVersions }

\* ------------------------------------------------------ the command line
ArgVectors ==
  { <<"prog">>,
    <<"prog", "bkt">>,
    <<"prog", "bkt", "--dry-run">>,
    <<"prog", "bkt", "--dry-run", "extra">> }

\* Lines the user can type at the confirmation prompt, as character
\* sequences (input() has already removed the newline).
Answers ==
  { <<"y">>, <<"Y">>, <<"n">>, <<"Y", "E", "S">>, <<>> }

\* str.lower(), character by character.
LowerChar(c) ==
  CASE c = "Y" -> "y"
    [] c = "E" -> "e"
    [] c = "S" -> "s"
    [] c = "N" -> "n"
    [] OTHER -> c

Lower(s) == [i \in 1..Len(s) |-> LowerChar(s[i])]

\* A plausible slip: accept every answer that starts with y.
Affirmative_Prefix(ans) == Len(ans) > 0 /\ LowerChar(ans[1]) = "y"

\* confirmation = input().lower(); the run proceeds iff confirmation == 'y'
Affirmative(ans) == Lower(ans) = <<"y">>

\* ------------------------------------------- the listing tool's output
\* The text of the output is a sequence of lines, a line a sequence of
\* tokens.  "members" stands for the three members of one version record.
Tok(t, r) == [t |-> t, r |-> r]
LBRACK == Tok("[", NoRec)
RBRACK == Tok("]", NoRec)
LBRACE == Tok("{", NoRec)
RBRACE == Tok("}", NoRec)
COMMA == Tok(",", NoRec)
JUNK == Tok("junk", NoRec)
Members(r) == Tok("members", r)

Forms ==
  { "lines", "lines_blank", "pretty", "compact", "bare", "lines_junk",
    "junk" }

\* The forms that are one structured record per line or one enclosing
\* collection (on one line or on several).
StructuredForms == { "lines", "lines_blank", "pretty", "compact", "bare" }

RECURSIVE Flatten(_)
Flatten(ls) == IF ls = <<>> THEN <<>> ELSE Head(ls) \o Flatten(Tail(ls))

RecordLines(b) == [i \in 1..Len(b) |-> <<LBRACE, Members(b[i]), RBRACE>>]

PrettyRecord(r, last) ==
  << <<LBRACE>>, <<Members(r)>>, IF last THEN <<RBRACE>> ELSE <<RBRACE, COMMA>> >>

PrettyLines(b) ==
  << <<LBRACK>> >>
  \o Flatten([i \in 1..Len(b) |-> PrettyRecord(b[i], i = Len(b))])
  \o << <<RBRACK>> >>

\* What the listing command prints for bucket content b in form f.
Render(b, f) ==
  CASE f = "lines" -> RecordLines(b)
    [] f = "lines_blank" -> << <<>> >> \o RecordLines(b) \o << <<>> >>
    [] f = "pretty" -> PrettyLines(b)
    [] f = "compact" -> << Flatten(PrettyLines(b)) >>
    [] f = "bare" -> << <<LBRACE>>, <<Members(b[1])>>, <<RBRACE>> >>
    [] f = "lines_junk" -> RecordLines(b) \o << <<JUNK>> >>
    [] f = "junk" -> << <<JUNK>> >>

FormApplies(b, f) == f = "bare" => Len(b) = 1

\* ------------------------------------------------------------ json.loads
\* Parsed values: k is "dict" (a version record), "dict0" (the empty
\* object) or "list"; the tokens spell no scalar.
Dict(r) == [k |-> "dict", rec |-> r, items |-> <<>>]
Dict0 == [k |-> "dict0", rec |-> NoRec, items |-> <<>>]
List(vs) == [k |-> "list", rec |-> NoRec, items |-> vs]
NoValue == [k |-> "none", rec |-> NoRec, items |-> <<>>]

ParseFail == [ok |-> FALSE, val |-> NoValue, next |-> 0]
ParseOk(v, n) == [ok |-> TRUE, val |-> v, next |-> n]

RECURSIVE ParseValue(_, _)
RECURSIVE ParseItems(_, _, _)

\* One JSON value starting at token i.
ParseValue(toks, i) ==
  IF i > Len(toks) THEN ParseFail
  ELSE CASE toks[i].t = "{" ->
              IF i + 1 <= Len(toks) /\ toks[i + 1].t = "}"
              THEN ParseOk(Dict0, i + 2)
              ELSE IF i + 2 <= Len(toks) /\ toks[i + 1].t = "members"
                      /\ toks[i + 2].t = "}"
                   THEN ParseOk(Dict(toks[i + 1].r), i + 3)
                   ELSE ParseFail
         [] toks[i].t = "[" ->
              IF i + 1 <= Len(toks) /\ toks[i + 1].t = "]"
              THEN ParseOk(List(<<>>), i + 2)
              ELSE ParseItems(toks, i + 1, <<>>)
         [] OTHER -> ParseFail

\* The items of a non-empty array, after its "[" or after a ",".
ParseItems(toks, i, acc) ==
  LET p == ParseValue(toks, i) IN
  IF ~p.ok \/ p.next > Len(toks) THEN ParseFail
  ELSE IF toks[p.next].t = "]"
       THEN ParseOk(List(Append(acc, p.val)), p.next + 1)
       ELSE IF toks[p.next].t = ","
            THEN ParseItems(toks, p.next + 1, Append(acc, p.val))
            ELSE ParseFail

\* json.loads(text): one value and nothing after it.
JsonLoads(toks) ==
  LET p == ParseValue(toks, 1) IN
  IF p.ok /\ p.next = Len(toks) + 1 THEN [ok |-> TRUE, val |-> p.val]
  ELSE [ok |-> FALSE, val |-> NoValue]

\* output.splitlines() filtered by line.strip()
NonBlank(ls) == SelectSeq(ls, LAMBDA l : l # <<>>)

\* [json.loads(line) for line in output.splitlines() if line.strip()]
LineByLine(ls) ==
  LET nb == NonBlank(ls)
      ps == [i \in 1..Len(nb) |-> JsonLoads(nb[i])]
  IN IF \A i \in 1..Len(ps) : ps[i].ok
     THEN [ok |-> TRUE, val |-> List([i \in 1..Len(ps) |-> ps[i].val])]
     ELSE [ok |-> FALSE, val |-> NoValue]

\* bool(value)
Truthy(v) ==
  CASE v.k = "list" -> v.items # <<>>
    [] v.k = "dict0" -> FALSE
    [] v.k = "none" -> FALSE
    [] OTHER -> TRUE

\* ------------------------------------------------- grouping and selection
\* files: the dict of the code, as the sequence of its items in insertion
\* order.
RECURSIVE GroupByName(_, _)
GroupByName(recs, files) ==
  IF recs = <<>> THEN files
  ELSE LET r == Head(recs)
           hit == { i \in 1..Len(files) : files[i].fileName = r.fileName }
       IN IF hit = {}
          THEN GroupByName(Tail(recs),
                 Append(files, [fileName |-> r.fileName, versions |-> <<r>>]))
          ELSE LET i == CHOOSE j \in hit : TRUE IN
               GroupByName(Tail(recs),
                 [files EXCEPT ![i].versions = Append(@, r)])

\* Whether e, already placed, stays before v: the comparison of each sort.
Before(e, v, order) ==
  CASE order = "desc_stable" -> e.uploadTimestamp >= v.uploadTimestamp
    [] order = "desc_unstable" -> e.uploadTimestamp > v.uploadTimestamp
    [] order = "asc_stable" -> e.uploadTimestamp <= v.uploadTimestamp

\* Number of leading elements of s that stay before v.
RECURSIVE LeadingCount(_, _, _)
LeadingCount(s, v, order) ==
  IF s = <<>> \/ ~Before(Head(s), v, order) THEN 0
  ELSE 1 + LeadingCount(Tail(s), v, order)

InsertAt(s, p, v) == SubSeq(s, 1, p) \o <<v>> \o SubSeq(s, p + 1, Len(s))

RECURSIVE SortFold(_, _, _)
SortFold(vs, acc, order) ==
  IF vs = <<>> THEN acc
  ELSE SortFold(Tail(vs),
                InsertAt(acc, LeadingCount(acc, Head(vs), order), Head(vs)),
                order)

\* A sort that puts a version before the earlier-listed versions of the
\* same timestamp.
SortedDesc_Unstable(versions) == SortFold(versions, <<>>, "desc_unstable")

\* reverse=True left out.
SortedDesc_Ascending(versions) == SortFold(versions, <<>>, "asc_stable")

\* sorted(versions, key=lambda x: x['uploadTimestamp'], reverse=True):
\* stable, so a version goes after every version already placed whose
\* timestamp is greater or equal.
SortedDesc(versions) == SortFold(versions, <<>>, "desc_stable")

\* sorted_versions[2:]
Candidates_SkipTwo(sorted) == SubSeq(sorted, 3, Len(sorted))

\* sorted_versions[1:2]
Candidates_OnlySecond(sorted) ==
  IF Len(sorted) >= 2 THEN <<sorted[2]>> ELSE <<>>

\* sorted_versions[1:]
Candidates(sorted) == SubSeq(sorted, 2, Len(sorted))

\* ------------------------------------------------------------------ state
VARIABLES
  bucket,         \* the versions stored in the bucket, in listing order
  prior_success,  \* an earlier run was live and reached its summary line
  argv,           \* sys.argv
  pc,             \* where the run is
  bucket_name,    \* sys.argv[1]
  dry_run,        \* "--dry-run" in sys.argv
  confirmation,   \* input().lower(), once read
  listed,         \* the versions in the bucket when the listing was taken
  output,         \* stdout of the listing command, as lines of tokens
  file_versions,  \* what get_file_versions returned
  files,          \* the fileName -> versions dict, items in insertion order
  fpos,           \* number of items of files the outer loop has taken
  sorted_versions,\* the current group, sorted
  pending,        \* what the inner loop has still to visit
  deleted_count,
  exit_code,      \* Running until the process has exited
  log             \* the run's external calls and printed lines, in order

vars ==
  << bucket, prior_success, argv, pc, bucket_name, dry_run,
     confirmation, listed, output, file_versions, files, fpos, sorted_versions, pending, deleted_count,
     exit_code, log >>

Running == 0 - 1

\* Events of the log.
Issue(cmd, name, id) ==
  [ev |-> "issue", what |-> cmd, name |-> name, id |-> id, n |-> 0]
Return(cmd, name, id, rc) ==
  [ev |-> "return", what |-> cmd, name |-> name, id |-> id, n |-> rc]
Printed(what, name, id, n) ==
  [ev |-> "print", what |-> what, name |-> name, id |-> id, n |-> n]
Say(what) == Printed(what, "", 0, 0)
ReadLine == [ev |-> "read", what |-> "confirmation", name |-> "", id |-> 0, n |-> 0]

\* The locals of a run before any statement has run.
FreshRun ==
  /\ pc = "start"
  /\ bucket_name = ""
  /\ dry_run = FALSE
  /\ confirmation = <<>>
  /\ listed = <<>>
  /\ output = <<>>
  /\ file_versions = NoValue
  /\ files = <<>>
  /\ fpos = 0
  /\ sorted_versions = <<>>
  /\ pending = <<>>
  /\ deleted_count = 0
  /\ exit_code = Running
  /\ log = <<>>

Init ==
  /\ bucket \in Buckets
  /\ argv \in ArgVectors
  /\ prior_success = FALSE
  /\ FreshRun

\* sys.exit(code), or the return of the last statement (code 0), or an
\* uncaught exception (code 1).
Exit(code, printed) ==
  /\ pc' = "exited"
  /\ exit_code' = code
  /\ log' = log \o printed

\* What the statements of one group leave alone.
launch == << argv, prior_success >>
gate == << bucket_name, dry_run, confirmation >>
listing == << listed, output, file_versions >>
loop == << files, fpos, sorted_versions, pending, deleted_count >>

\* ----------------------------------------------------------- entry point
\* Lines 98-110: the argument count, bucket_name, dry_run, and the notice
\* or the warning.
CheckArgs ==
  /\ pc = "start"
  /\ IF Len(argv) < 2 \/ Len(argv) > 3
     THEN /\ Exit(1, <<Say("usage")>>)
          /\ UNCHANGED << bucket_name, dry_run >>
     ELSE /\ bucket_name' = argv[2]
          /\ dry_run' = (\E i \in 1..Len(argv) : argv[i] = "--dry-run")
          /\ IF dry_run'
             THEN pc' = "run" /\ log' = Append(log, Say("dry_run_notice"))
             ELSE pc' = "confirm" /\ log' = Append(log, Say("warning"))
          /\ UNCHANGED exit_code
  /\ UNCHANGED << bucket, launch, confirmation, listing, loop >>

\* Lines 111-114: the confirmation line is read and decides.
Confirm ==
  /\ pc = "confirm"
  /\ \E ans \in Answers :
       /\ confirmation' = Lower(ans)
       /\ IF Affirmative(ans)
          THEN /\ pc' = "run"
               /\ log' = Append(log, ReadLine)
               /\ UNCHANGED exit_code
          ELSE Exit(0, <<ReadLine, Say("cancelled")>>)
  /\ UNCHANGED << bucket, launch, bucket_name, dry_run, listing, loop >>

\* ------------------------------------------------------------ the lister
\* Lines 57, 40-41 and 30: the listing command is started.
ListIssue ==
  /\ pc = "run"
  /\ pc' = "ls_running"
  /\ log' = Append(log, Issue("ls", bucket_name, 0))
  /\ UNCHANGED << bucket, launch, gate, listing, loop, exit_code >>

\* Lines 30-35 for the listing command: it ends, with its output or with a
\* nonzero status.
ListReturn ==
  /\ pc = "ls_running"
  /\ \/ \E f \in Forms :
          /\ FormApplies(bucket, f)
          /\ listed' = bucket
          /\ output' = Render(bucket, f)
          /\ pc' = "parse"
          /\ log' = Append(log, Return("ls", bucket_name, 0, 0))
          /\ UNCHANGED exit_code
     \/ /\ Exit(1, << Return("ls", bucket_name, 0, 1),
                      Say("command_error") >>)
        /\ UNCHANGED << listed, output >>
  /\ UNCHANGED << bucket, launch, gate, file_versions, loop >>

\* Lines 44-53: line by line, and the whole output if a line does not
\* parse; output is a local of get_file_versions and ends with it.
ParseOutput ==
  /\ pc = "parse"
  /\ LET byLine == LineByLine(output)
         whole == JsonLoads(Flatten(output))
     IN IF byLine.ok
        THEN /\ file_versions' = byLine.val
             /\ pc' = "group"
             /\ UNCHANGED << log, exit_code >>
        ELSE IF whole.ok
             THEN /\ file_versions' = whole.val
                  /\ pc' = "group"
                  /\ log' = log \o << Say("decode_error"), Say("fallback") >>
                  /\ UNCHANGED exit_code
             ELSE /\ Exit(1, << Say("decode_error"), Say("fallback"),
                                Say("parse_failed") >>)
                  /\ UNCHANGED file_versions
  /\ output' = <<>>
  /\ UNCHANGED << bucket, launch, gate, listed, loop >>

\* ------------------------------------------------------------ the grouper
\* The records of a list whose items are all version records.
Records(v) == [i \in 1..Len(v.items) |-> v.items[i].rec]

\* file['fileName'] is defined for a version record only: on a list it
\* raises TypeError, on the empty object KeyError.
Subscriptable(v) == v.k = "dict"

\* Lines 59-74: the empty check, the grouping by fileName, deleted_count.
\* (The branch of lines 70-72 needs a value that is neither a list nor an
\* object, which no output of these tokens parses to.)
GroupVersions ==
  /\ pc = "group"
  /\ IF ~Truthy(file_versions)
     THEN /\ Exit(0, <<Printed("no_files", bucket_name, 0, 0)>>)
          /\ UNCHANGED << files, deleted_count >>
     ELSE IF file_versions.k = "list"
          THEN IF \A i \in 1..Len(file_versions.items) :
                    Subscriptable(file_versions.items[i])
               THEN /\ files' = GroupByName(Records(file_versions), <<>>)
                    /\ deleted_count' = 0
                    /\ pc' = "next_file"
                    /\ UNCHANGED << log, exit_code >>
               ELSE /\ Exit(1, <<Say("traceback")>>)
                    /\ UNCHANGED << files, deleted_count >>
          ELSE IF file_versions.k = "dict"
               THEN /\ files' = << [fileName |-> file_versions.rec.fileName,
                                    versions |-> <<file_versions.rec>>] >>
                    /\ deleted_count' = 0
                    /\ pc' = "next_file"
                    /\ UNCHANGED << log, exit_code >>
               ELSE /\ Exit(0, <<Say("unexpected_type")>>)
                    /\ UNCHANGED << files, deleted_count >>
  /\ UNCHANGED << bucket, launch, gate, listing, fpos, sorted_versions,
                  pending >>

\* Lines 75-80: the next item of files, sorted, and its candidates.
NextFile ==
  /\ pc = "next_file"
  /\ fpos < Len(files)
  /\ fpos' = fpos + 1
  /\ sorted_versions' = SortedDesc(files[fpos + 1].versions)
  /\ pending' = Candidates(sorted_versions')
  /\ pc' = "next_version"
  /\ UNCHANGED << bucket, launch, gate, listing, files, deleted_count,
                  exit_code, log >>

\* Line 80, the inner loop is exhausted: back to the outer loop.
GroupDone ==
  /\ pc = "next_version"
  /\ pending = <<>>
  /\ pc' = "next_file"
  /\ UNCHANGED << bucket, launch, gate, listing, loop, exit_code, log >>

\* ------------------------------------------------------------ the deleter
\* The store after `b2 delete-file-version name id` has succeeded: that
\* version is gone, every other version is untouched.
DeleteVersion(b, name, id) ==
  SelectSeq(b, LAMBDA r : ~(r.fileName = name /\ r.fileId = id))

\* The dry-run branch with the delete call of the live branch in it.
WouldDelete_Calls ==
  /\ pc = "next_version"
  /\ pending # <<>>
  /\ dry_run
  /\ LET v == Head(pending) IN
       log' = log \o << Printed("would_delete", v.fileName, v.fileId, 0),
                        Issue("delete", v.fileName, v.fileId),
                        Return("delete", v.fileName, v.fileId, 0) >>
  /\ pending' = Tail(pending)
  /\ deleted_count' = deleted_count + 1
  /\ UNCHANGED << bucket, launch, gate, listing, files, fpos,
                  sorted_versions, pc, exit_code >>

\* Lines 80-82 and 87, dry-run: the line is printed and the count goes up.
WouldDelete ==
  /\ pc = "next_version"
  /\ pending # <<>>
  /\ dry_run
  /\ LET v == Head(pending) IN
       log' = Append(log, Printed("would_delete", v.fileName, v.fileId, 0))
  /\ pending' = Tail(pending)
  /\ deleted_count' = deleted_count + 1
  /\ UNCHANGED << bucket, launch, gate, listing, files, fpos,
                  sorted_versions, pc, exit_code >>

\* The delete command started and not waited for.
IssueDelete_NoWait ==
  /\ pc = "next_version"
  /\ pending # <<>>
  /\ ~dry_run
  /\ LET v == Head(pending) IN
       log' = log \o << Printed("deleting", v.fileName, v.fileId, 0),
                        Issue("delete", v.fileName, v.fileId) >>
  /\ pending' = Tail(pending)
  /\ deleted_count' = deleted_count + 1
  /\ UNCHANGED << bucket, launch, gate, listing, files, fpos,
                  sorted_versions, pc, exit_code >>

\* Lines 80, 84-86 and 30, live: the line is printed and the delete command
\* for the candidate is started.
IssueDelete ==
  /\ pc = "next_version"
  /\ pending # <<>>
  /\ ~dry_run
  /\ LET v == Head(pending) IN
       log' = log \o << Printed("deleting", v.fileName, v.fileId, 0),
                        Issue("delete", v.fileName, v.fileId) >>
  /\ pc' = "delete_running"
  /\ UNCHANGED << bucket, launch, gate, listing, loop, exit_code >>

\* A delete command whose failure is swallowed: the loop goes on.
DeleteReturn_Continue ==
  /\ pc = "delete_running"
  /\ LET v == Head(pending) IN
       \/ /\ bucket' = DeleteVersion(bucket, v.fileName, v.fileId)
          /\ log' = Append(log, Return("delete", v.fileName, v.fileId, 0))
       \/ /\ log' = log \o << Return("delete", v.fileName, v.fileId, 1),
                              Say("command_error") >>
          /\ UNCHANGED bucket
  /\ pending' = Tail(pending)
  /\ deleted_count' = deleted_count + 1
  /\ pc' = "next_version"
  /\ UNCHANGED << launch, gate, listing, files, fpos, sorted_versions,
                  exit_code >>

\* Lines 30-35 for the delete command, and line 87: it ends; on success the
\* version is gone and the count goes up, on a nonzero status the process
\* exits with code 1.
DeleteReturn ==
  /\ pc = "delete_running"
  /\ LET v == Head(pending) IN
       \/ /\ bucket' = DeleteVersion(bucket, v.fileName, v.fileId)
          /\ log' = Append(log, Return("delete", v.fileName, v.fileId, 0))
          /\ pending' = Tail(pending)
          /\ deleted_count' = deleted_count + 1
          /\ pc' = "next_version"
          /\ UNCHANGED exit_code
       \/ /\ Exit(1, << Return("delete", v.fileName, v.fileId, 1),
                        Say("command_error") >>)
          /\ UNCHANGED << bucket, pending, deleted_count >>
  /\ UNCHANGED << launch, gate, listing, files, fpos, sorted_versions >>

\* Lines 89-93 and the end of the script: the summary line, exit code 0.
PrintSummary ==
  /\ pc = "next_file"
  /\ fpos = Len(files)
  /\ Exit(0, << Printed(IF dry_run THEN "summary_dry" ELSE "summary_live",
                        "", 0, deleted_count) >>)
  /\ UNCHANGED << bucket, launch, gate, listing, loop >>

\* ----------------------------------------------------------- the next run
SummaryLivePrinted ==
  \E i \in 1..Len(log) : log[i].ev = "print" /\ log[i].what = "summary_live"

\* The script is started again, on the bucket as the run before left it.
Restart ==
  /\ pc = "exited"
  /\ prior_success' = (prior_success \/ SummaryLivePrinted)
  /\ argv' \in ArgVectors
  /\ pc' = "start"
  /\ bucket_name' = ""
  /\ dry_run' = FALSE
  /\ confirmation' = <<>>
  /\ listed' = <<>>
  /\ output' = <<>>
  /\ file_versions' = NoValue
  /\ files' = <<>>
  /\ fpos' = 0
  /\ sorted_versions' = <<>>
  /\ pending' = <<>>
  /\ deleted_count' = 0
  /\ exit_code' = Running
  /\ log' = <<>>
  /\ UNCHANGED bucket

Next ==
  \/ CheckArgs
  \/ Confirm
  \/ ListIssue
  \/ ListReturn
  \/ ParseOutput
  \/ GroupVersions
  \/ NextFile
  \/ GroupDone
  \/ WouldDelete
  \/ IssueDelete
  \/ DeleteReturn
  \/ PrintSummary
  \/ Restart

Spec == Init /\ [][Next]_vars

\* ------------------------------------------------- reading the run's log
Range(q) == { q[i] : i \in 1..Len(q) }
Idx == 1..Len(log)

Issues == { i \in Idx : log[i].ev = "issue" }
DeleteIssues == { i \in Issues : log[i].what = "delete" }
ListIssues == { i \in Issues : log[i].what = "ls" }
IssuedIds == { log[i].id : i \in DeleteIssues }
DeleteReturns(rc) ==
  { i \in Idx : log[i].ev = "return" /\ log[i].what = "delete" /\ log[i].n = rc }
ReadEvents == { i \in Idx : log[i].ev = "read" }
PrintEvents(whats) == { i \in Idx : log[i].ev = "print" /\ log[i].what \in whats }

\* The "Would delete" and "Deleting" lines: one per candidate the loop took.
MarkEvents == PrintEvents({"would_delete", "deleting"})
MarkedIds == { log[i].id : i \in MarkEvents }
SummaryEvents == PrintEvents({"summary_dry", "summary_live"})

\* The listing, as the bucket had it.
ListedNames == { r.fileName : r \in Range(listed) }
Group(nm) == { r \in Range(listed) : r.fileName = nm }
Pos(r) == CHOOSE i \in 1..Len(listed) : listed[i] = r
Newest(nm) == { r \in Group(nm) :
                  \A o \in Group(nm) : o.uploadTimestamp <= r.uploadTimestamp }
\* The version to keep: the newest, and of several newest the first listed.
Keeper(nm) == CHOOSE r \in Newest(nm) : \A o \in Newest(nm) : Pos(r) <= Pos(o)
ExpectedCandidates ==
  { r.fileId : r \in { x \in Range(listed) : x # Keeper(x.fileName) } }

\* What delete_old_versions groups: the list, or the bare record wrapped.
GroupedRecords ==
  IF file_versions.k = "dict" THEN <<file_versions.rec>>
  ELSE Records(file_versions)

\* ------------------------------------------------------------------ claims

\* C1: when a run reaches its summary line, exactly one record of every
\* distinct fileName was left unmarked, every other record was marked as a
\* deletion candidate exactly once, so the number of candidates is the
\* number of records minus the number of distinct fileNames, and that
\* number is the total the summary line prints.
C1_OneRetainedPerName ==
  SummaryEvents # {} =>
    LET recs == Range(GroupedRecords)
        names == { r.fileName : r \in recs }
    IN /\ Cardinality(MarkEvents) = Cardinality(MarkedIds)
       /\ MarkedIds \subseteq { r.fileId : r \in recs }
       /\ \A nm \in names :
            Cardinality({ r \in recs : r.fileName = nm
                                       /\ r.fileId \notin MarkedIds }) = 1
       /\ Cardinality(MarkedIds) = Len(GroupedRecords) - Cardinality(names)
       /\ \A i \in SummaryEvents :
            log[i].n = Len(GroupedRecords) - Cardinality(names)

C1_Witness ==
  /\ SummaryEvents # {}
  /\ Len(GroupedRecords) = 3
  /\ Cardinality({ r.fileName : r \in Range(GroupedRecords) }) = 2
  /\ deleted_count = 1

\* C2: in every state, of every fileName of the listing a version with the
\* greatest uploadTimestamp of its group has not been passed to the delete
\* command and is still in the bucket, and whatever was passed to the
\* delete command is a listed version no newer than it.
C2_NewestRetained ==
  /\ \A nm \in ListedNames :
       \E r \in Newest(nm) : r.fileId \notin IssuedIds /\ r \in Range(bucket)
  /\ \A i \in DeleteIssues :
       \E d \in Group(log[i].name) :
         /\ d.fileId = log[i].id
         /\ \E r \in Newest(d.fileName) :
              /\ r.fileId \notin IssuedIds
              /\ d.uploadTimestamp <= r.uploadTimestamp

C2_Witness ==
  /\ pc = "exited"
  /\ exit_code = 1
  /\ Cardinality(DeleteIssues) = 2
  /\ [i \in 1..Len(listed) |-> listed[i].uploadTimestamp] = <<1, 3, 2>>
  /\ Cardinality(ListedNames) = 1
  /\ \E r \in Range(bucket) : r.uploadTimestamp = 3

C4_ConfirmationGate ==
  /\ \A i \in Issues : ~dry_run => \E j \in ReadEvents : j < i
  /\ (ReadEvents # {} /\ confirmation # <<"y">>) =>
       /\ pc = "exited"
       /\ exit_code = 0
       /\ log[Len(log)] = Say("cancelled")
       /\ Issues = {}

C4_Witness ==
  /\ ReadEvents # {}
  /\ confirmation = <<"y", "e", "s">>
  /\ pc = "exited"

\* C5: once a delete call has returned nonzero, the process has exited with
\* code 1 right after reporting the error: that return and the error report
\* are the last two entries of the log, no summary line was printed, the
\* failed call was issued once, and every version deleted before it is
\* still gone from the bucket.
C5_FailedDeleteIsFatal ==
  \A k \in DeleteReturns(1) :
    /\ pc = "exited"
    /\ exit_code = 1
    /\ k = Len(log) - 1
    /\ log[Len(log)] = Say("command_error")
    /\ SummaryEvents = {}
    /\ Cardinality({ j \in DeleteIssues : log[j].id = log[k].id }) = 1
    /\ deleted_count = Cardinality(DeleteReturns(0))
    /\ \A j \in DeleteReturns(0) :
         \A r \in Range(bucket) :
           ~(r.fileName = log[j].name /\ r.fileId = log[j].id)

C5_Witness ==
  /\ DeleteReturns(1) # {}
  /\ Len(pending) = 2
  /\ pending[2].fileId \notin IssuedIds

\* The output is one record per line or one enclosing collection.
Structured ==
  \E f \in StructuredForms :
    FormApplies(listed, f) /\ output = Render(listed, f)

\* What delete_old_versions takes as the records: the items of the list,
\* or the bare object wrapped.
Handed ==
  IF file_versions.k = "dict" THEN { file_versions }
  ELSE Range(file_versions.items)

\* C6: on an output that is one record per line or one enclosing
\* collection, get_file_versions returns (parsing does not fail), the
\* values handed to the grouper are exactly the version records of the
\* bucket, and the whole-output fallback is taken iff line-by-line parsing
\* fails.
C6_ListerComplete ==
  [][(pc = "parse" /\ Structured) =>
       /\ pc' = "group"
       /\ Handed' = { Dict(r) : r \in Range(listed) }
       /\ (PrintEvents({"fallback"})' # {}) <=> ~LineByLine(output).ok]_vars

\* C7: a run that has ended has exit code 1 after the usage line (and then
\* without any external call), after a command error or after the report
\* that the output parses in neither mode, and exit code 0 after a summary
\* line, after "No files found" or after "Operation cancelled."; it ends in
\* no other way.
C7_ExitCodes ==
  pc = "exited" =>
    LET last == log[Len(log)] IN
    /\ \/ exit_code = 1 /\ last = Say("usage") /\ Issues = {}
       \/ exit_code = 1 /\ last = Say("command_error")
       \/ exit_code = 1 /\ last = Say("parse_failed")
       \/ exit_code = 0 /\ Len(log) \in SummaryEvents
       \/ exit_code = 0 /\ Len(log) \in PrintEvents({"no_files"})
       \/ exit_code = 0 /\ last = Say("cancelled")
    /\ (Len(argv) < 2 \/ Len(argv) > 3) => last = Say("usage")

\* C8: in the sorted group two versions of equal uploadTimestamp stand in
\* the order the listing has them; so of several versions that tie for the
\* greatest timestamp the first listed is the one kept and the others are
\* deletion candidates.
C8_StableSort ==
  /\ \A i, j \in 1..Len(sorted_versions) :
       (i < j /\ sorted_versions[i].uploadTimestamp
                   = sorted_versions[j].uploadTimestamp)
         => Pos(sorted_versions[i]) < Pos(sorted_versions[j])
  /\ sorted_versions # <<>> =>
       LET nm == sorted_versions[1].fileName IN
       /\ sorted_versions[1] = Keeper(nm)
       /\ \A r \in Newest(nm) \ { Keeper(nm) } :
            r.fileId \in MarkedIds \/ r \in Range(pending)

C8_Witness ==
  /\ pc = "next_version"
  /\ Len(sorted_versions) = 3
  /\ sorted_versions[1].uploadTimestamp = sorted_versions[2].uploadTimestamp
  /\ sorted_versions[2].uploadTimestamp = sorted_versions[3].uploadTimestamp
  /\ Len(pending) = 2

\* C9: a run that proceeds issues one listing call, as its first external
\* call; every call has returned before anything else happens, so the
\* listing has returned before the first delete call and each delete call
\* before the next; the summary line comes last, after every candidate;
\* and the delete calls of one fileName go by descending uploadTimestamp.
C9_Sequencing ==
  /\ Cardinality(ListIssues) <= 1
  /\ (pc \in {"ls_running", "parse", "group", "next_file", "next_version",
              "delete_running"} \/ DeleteIssues # {} \/ SummaryEvents # {})
       => /\ Cardinality(ListIssues) = 1
          /\ \A i \in ListIssues : \A j \in Issues : i <= j
  /\ \A i \in Issues :
       IF i = Len(log)
       THEN pc = (IF log[i].what = "ls" THEN "ls_running" ELSE "delete_running")
       ELSE /\ log[i + 1].ev = "return"
            /\ log[i + 1].what = log[i].what
            /\ log[i + 1].id = log[i].id
  /\ \A i \in DeleteIssues :
       \E j \in Idx : j < i /\ log[j] = Return("ls", bucket_name, 0, 0)
  /\ \A i \in SummaryEvents :
       /\ i = Len(log)
       /\ pc = "exited"
       /\ MarkedIds = ExpectedCandidates
  /\ \A i, j \in DeleteIssues :
       (i < j /\ log[i].name = log[j].name) =>
         \E a, b \in Range(listed) :
           /\ a.fileId = log[i].id
           /\ b.fileId = log[j].id
           /\ a.uploadTimestamp >= b.uploadTimestamp

C9_Witness ==
  /\ SummaryLivePrinted
  /\ \E i, j \in DeleteIssues :
       /\ i < j
       /\ log[i].name = log[j].name
       /\ \E a, b \in Range(listed) :
            /\ a.fileId = log[i].id
            /\ b.fileId = log[j].id
            /\ a.uploadTimestamp > b.uploadTimestamp

\* C10: when a live run has printed its summary, every fileName of its
\* listing has exactly one version left in the bucket; and in every run
\* started after such a run no candidate is selected, no delete call is
\* issued, and a summary line, if printed, reports 0.
C10_Convergence ==
  /\ SummaryLivePrinted =>
       \A nm \in ListedNames :
         Cardinality({ r \in Range(bucket) : r.fileName = nm }) = 1
  /\ prior_success =>
       /\ DeleteIssues = {}
       /\ MarkEvents = {}
       /\ pending = <<>>
       /\ deleted_count = 0
       /\ \A i \in SummaryEvents : log[i].n = 0

C10_Witness ==
  /\ prior_success
  /\ SummaryEvents # {}
  /\ Len(bucket) = 2
  /\ \E i \in 1..Len(bucket) : bucket[i].fileId > Len(bucket)

====
